---------------------------- MODULE Spec2Model ----------------------------
(***************************************************************************)
(* A model of the assertion layer (air/src/air/assertions/mod.rs), of the  *)
(* trace polynomial table (prover/src/trace/poly_table.rs) and of the      *)
(* extension fields (math/src/field/extensions) of winterfell.             *)
(*                                                                         *)
(* The base field is the field of residues of the small prime M; a base    *)
(* field element in memory is BASE_ELEMENT_BYTES bytes of ByteBits bits.   *)
(*                                                                         *)
(* usize is modelled as an unsigned integer of WordBits bits.  Arithmetic  *)
(* that leaves the range panics in a build with overflow checks ("debug")  *)
(* and wraps in a build without them ("release"); the build is chosen in   *)
(* Init and both are explored.                                             *)
(***************************************************************************)
EXTENDS Integers, Sequences, FiniteSets

\* ------------------------------------------------------------------------
\* Bounds of the model
\* ------------------------------------------------------------------------

\* width of usize in the model
WordBits == 4
\* value lists handed to sequence() have 0..MaxValues entries
MaxValues == 4
\* a polynomial table takes at most MaxAux add_aux_segment calls
MaxAux == 2
\* matrices have 1..MaxCols columns and 2^0..2^MaxLogRows rows
MaxCols == 2
MaxLogRows == 2

Modulus == 2 ^ WordBits
MaxUsize == Modulus - 1
Usize == 0 .. MaxUsize
\* the registers assertions are placed against
Registers == {0, 1}
\* base field elements used as asserted values
Elems == {10, 20}
\* the value list of length n handed to sequence(): 10, 20, 30, ...
ValueList(n) == [k \in 1 .. n |-> 10 * k]
ValueLists == {ValueList(n) : n \in 0 .. MaxValues}
Builds == {"debug", "release"}

\* ------------------------------------------------------------------------
\* usize arithmetic
\* ------------------------------------------------------------------------

\* the value a usize computation keeps when overflow checks are off
Wrapped(n) == n % Modulus
\* the mathematical result does not fit in a usize
Overflows(n) == n > MaxUsize

\* usize::is_power_of_two: exactly one bit set (false for 0)
is_power_of_two(n) == \E k \in 0 .. WordBits - 1 : n = 2 ^ k

\* usize::next_power_of_two, as a mathematical value: the smallest power of
\* two >= n (1 for n = 0); it is 2^WordBits when the result does not fit
next_power_of_two(n) ==
    2 ^ (CHOOSE k \in 0 .. WordBits :
            /\ 2 ^ k >= n
            /\ \A j \in 0 .. WordBits : 2 ^ j >= n => k <= j)

\* ------------------------------------------------------------------------
\* Assertion: constants and constructors
\* ------------------------------------------------------------------------

MIN_STRIDE_LENGTH == 2
NO_STRIDE == 0

\* struct Assertion { register, first_step, stride, values }
Assertion(register, first_step, stride, values) ==
    [register |-> register, first_step |-> first_step,
     stride |-> stride, values |-> values]

\* the placeholder held while no assertion has been constructed
NoAssertion == Assertion(0, 0, 0, <<>>)

\* outcome of a constructor: the assertion, or a panic
Built(a) == [panic |-> FALSE, val |-> a]
Aborted == [panic |-> TRUE, val |-> NoAssertion]

\* variant: the last assert! reads first_step <= stride, as the doc comment
\* ("first_step is greater than stride") would have it
validate_stride_le(stride, first_step, register) ==
    /\ is_power_of_two(stride)
    /\ stride >= MIN_STRIDE_LENGTH
    /\ first_step <= stride

\* validate_stride: TRUE when none of its three assert! fires
validate_stride(stride, first_step, register) ==
    /\ is_power_of_two(stride)
    /\ stride >= MIN_STRIDE_LENGTH
    /\ first_step < stride

\* Assertion::single
single(register, step, value) ==
    Built(Assertion(register, step, NO_STRIDE, <<value>>))

\* variant: periodic does not validate the stride
periodic_unvalidated(register, first_step, stride, value) ==
    Built(Assertion(register, first_step, stride, <<value>>))

\* Assertion::periodic
periodic(register, first_step, stride, value) ==
    IF ~validate_stride(stride, first_step, register) THEN Aborted
    ELSE Built(Assertion(register, first_step, stride, <<value>>))

\* variant: the stride of a one-value sequence is not reset to NO_STRIDE
sequence_keep_stride(register, first_step, stride, values) ==
    IF ~validate_stride(stride, first_step, register) THEN Aborted
    ELSE IF values = <<>> THEN Aborted
    ELSE IF ~is_power_of_two(Len(values)) THEN Aborted
    ELSE Built(Assertion(register, first_step, stride, values))

\* Assertion::sequence: three checks, then the stride of a one-value list
\* becomes NO_STRIDE
sequence(register, first_step, stride, values) ==
    IF ~validate_stride(stride, first_step, register) THEN Aborted
    ELSE IF values = <<>> THEN Aborted
    ELSE IF ~is_power_of_two(Len(values)) THEN Aborted
    ELSE Built(Assertion(register, first_step,
                         IF Len(values) = 1 THEN NO_STRIDE ELSE stride,
                         values))

\* ------------------------------------------------------------------------
\* Assertion: accessors
\* ------------------------------------------------------------------------

is_single(self) == self.stride = NO_STRIDE

is_periodic(self) == self.stride # NO_STRIDE /\ Len(self.values) = 1

is_sequence(self) == Len(self.values) > 1

\* ------------------------------------------------------------------------
\* State
\* ------------------------------------------------------------------------

VARIABLES
    build,      \* "debug": overflow checks on; "release": wrapping arithmetic
    pc,         \* "new", "aborted", "ready", "applying", "returned", "panicked"
    ctor,       \* the constructor that was called
    args,       \* the arguments it was called with
    self,       \* the assertion it returned
    other,      \* the argument of overlaps_with / cmp / partial_cmp
    op,         \* the method called last
    arg,        \* its trace_length / trace_width argument
    ret,        \* its result
    i,          \* apply: number of callbacks made so far
    calls,      \* apply: the (step, value) pairs f was invoked with, in order
    main_segment_polys,   \* TracePolyTable.main_segment_polys
    aux_segment_polys,    \* TracePolyTable.aux_segment_polys
    tpc,        \* table: "ready", "returned" from an accessor, or "panicked"
    top,        \* table: the method called last
    targ,       \* table: the arguments of the last call that took any
    tret,       \* table: the value the last accessor returned
    fop,        \* field: the function applied
    fin,        \* field: its arguments
    fout        \* field: its result

avars == <<build, pc, ctor, args, self, other, op, arg, ret, i, calls>>
tvars == <<main_segment_polys, aux_segment_polys, tpc, top, targ, tret>>
fvars == <<fop, fin, fout>>
vars == <<avars, tvars, fvars>>

\* results of the validate_* methods: Ok(()) or Err(AssertionError::tag(a, b));
\* Panicked stands for a method that did not return
OkResult == [tag |-> "Ok", a |-> 0, b |-> 0]
Err(tag, a, b) == [tag |-> tag, a |-> a, b |-> b]
Panicked == [tag |-> "Panic", a |-> 0, b |-> 0]
NoResult == [tag |-> "None", a |-> 0, b |-> 0]

\* ------------------------------------------------------------------------
\* Assertion: public methods
\* ------------------------------------------------------------------------

\* variant: the branch for self.first_step > other.first_step is missing
overlaps_with_no_mirror(self_, other_) ==
    IF self_.register # other_.register THEN FALSE
    ELSE IF self_.first_step = other_.first_step THEN TRUE
    ELSE IF self_.stride = other_.stride THEN FALSE
    ELSE IF self_.first_step < other_.first_step THEN
        IF is_single(self_) THEN FALSE
        ELSE IF is_single(other_) \/ self_.stride < other_.stride
             THEN (other_.first_step - self_.first_step) % self_.stride = 0
             ELSE FALSE
    ELSE FALSE

\* variant: the stride test precedes the first_step test
overlaps_with_stride_first(self_, other_) ==
    IF self_.register # other_.register THEN FALSE
    ELSE IF self_.stride = other_.stride THEN FALSE
    ELSE IF self_.first_step = other_.first_step THEN TRUE
    ELSE IF self_.first_step < other_.first_step THEN
        IF is_single(self_) THEN FALSE
        ELSE IF is_single(other_) \/ self_.stride < other_.stride
             THEN (other_.first_step - self_.first_step) % self_.stride = 0
             ELSE FALSE
    ELSE
        IF is_single(other_) THEN FALSE
        ELSE IF is_single(self_) \/ other_.stride < self_.stride
             THEN (self_.first_step - other_.first_step) % other_.stride = 0
             ELSE FALSE

\* Assertion::overlaps_with
overlaps_with(self_, other_) ==
    IF self_.register # other_.register THEN FALSE
    ELSE IF self_.first_step = other_.first_step THEN TRUE
    ELSE IF self_.stride = other_.stride THEN FALSE
    ELSE IF self_.first_step < other_.first_step THEN
        IF is_single(self_) THEN FALSE
        ELSE IF is_single(other_) \/ self_.stride < other_.stride
             THEN (other_.first_step - self_.first_step) % self_.stride = 0
             ELSE FALSE
    ELSE
        IF is_single(other_) THEN FALSE
        ELSE IF is_single(self_) \/ other_.stride < self_.stride
             THEN (self_.first_step - other_.first_step) % other_.stride = 0
             ELSE FALSE

\* variant: > for >=
validate_trace_width_gt(self_, trace_width) ==
    IF self_.register > trace_width
    THEN Err("TraceWidthTooShort", self_.register, trace_width)
    ELSE OkResult

\* Assertion::validate_trace_width
validate_trace_width(self_, trace_width) ==
    IF self_.register >= trace_width
    THEN Err("TraceWidthTooShort", self_.register, trace_width)
    ELSE OkResult

\* Assertion::validate_trace_length; first_step + 1, its next power of two
\* and len * stride are usize computations
validate_trace_length(self_, trace_length) ==
    IF ~is_power_of_two(trace_length)
    THEN Err("TraceLengthNotPowerOfTwo", trace_length, 0)
    ELSE IF is_single(self_) THEN
        IF self_.first_step >= trace_length THEN
            LET sum == self_.first_step + 1
                pow == next_power_of_two(Wrapped(sum))
            IN  IF build = "debug" /\ (Overflows(sum) \/ Overflows(pow))
                THEN Panicked
                ELSE Err("TraceLengthTooShort", Wrapped(pow), trace_length)
        ELSE OkResult
    ELSE IF is_periodic(self_) THEN
        IF self_.stride > trace_length
        THEN Err("TraceLengthTooShort", self_.stride, trace_length)
        ELSE OkResult
    ELSE
        LET product == Len(self_.values) * self_.stride
            expected_length == Wrapped(product)
        IN  IF build = "debug" /\ Overflows(product) THEN Panicked
            ELSE IF expected_length # trace_length
            THEN Err("TraceLengthNotExact", expected_length, trace_length)
            ELSE OkResult

\* apply: the number of times its branch invokes f
apply_count(self_, trace_length) ==
    IF is_single(self_) THEN 1
    ELSE IF is_periodic(self_) THEN trace_length \div self_.stride
    ELSE Len(self_.values)

\* apply: the step of the k-th invocation of f (k from 0), before wrapping
apply_step(self_, k) ==
    IF is_single(self_) THEN self_.first_step
    ELSE self_.first_step + self_.stride * k

\* variant: every invocation gets values[0]
apply_value_first(self_, k) == self_.values[1]

\* apply: the value of the k-th invocation of f (k from 0)
apply_value(self_, k) ==
    IF is_single(self_) THEN self_.values[1]
    ELSE IF is_periodic(self_) THEN self_.values[1]
    ELSE self_.values[k + 1]

\* variant: a periodic assertion reports its stride
get_num_steps_stride(self_, trace_length) ==
    LET v == validate_trace_length(self_, trace_length)
    IN  IF v # OkResult THEN Panicked
        ELSE IF is_single(self_) THEN [tag |-> "usize", a |-> 1, b |-> 0]
        ELSE IF is_periodic(self_)
             THEN [tag |-> "usize", a |-> self_.stride, b |-> 0]
        ELSE [tag |-> "usize", a |-> Len(self_.values), b |-> 0]

\* Assertion::get_num_steps: panics unless validate_trace_length is Ok
get_num_steps(self_, trace_length) ==
    LET v == validate_trace_length(self_, trace_length)
    IN  IF v # OkResult THEN Panicked
        ELSE IF is_single(self_) THEN [tag |-> "usize", a |-> 1, b |-> 0]
        ELSE IF is_periodic(self_)
             THEN [tag |-> "usize", a |-> trace_length \div self_.stride, b |-> 0]
        ELSE [tag |-> "usize", a |-> Len(self_.values), b |-> 0]

\* usize::partial_cmp(..).unwrap()
cmp_usize(x, y) == IF x < y THEN "Less" ELSE IF x = y THEN "Equal" ELSE "Greater"

\* comparison of two value lists, as a derived Ord on Vec<B> would make it
cmp_values(x, y) ==
    IF x = y THEN "Equal"
    ELSE IF Len(x) < Len(y) THEN "Less"
    ELSE IF Len(x) > Len(y) THEN "Greater"
    ELSE LET d == CHOOSE k \in 1 .. Len(x) :
                      x[k] # y[k] /\ \A j \in 1 .. k - 1 : x[j] = y[j]
         IN  cmp_usize(x[d], y[d])

\* variant: assertions with equal keys are ordered by their values
cmp_with_values(self_, other_) ==
    IF self_.stride = other_.stride THEN
        IF self_.first_step = other_.first_step THEN
            IF self_.register = other_.register
            THEN cmp_values(self_.values, other_.values)
            ELSE cmp_usize(self_.register, other_.register)
        ELSE cmp_usize(self_.first_step, other_.first_step)
    ELSE cmp_usize(self_.stride, other_.stride)

\* Ord::cmp for Assertion
cmp(self_, other_) ==
    IF self_.stride = other_.stride THEN
        IF self_.first_step = other_.first_step
        THEN cmp_usize(self_.register, other_.register)
        ELSE cmp_usize(self_.first_step, other_.first_step)
    ELSE cmp_usize(self_.stride, other_.stride)

\* PartialOrd::partial_cmp for Assertion: Some(self.cmp(other))
partial_cmp(self_, other_) == [some |-> TRUE, ord |-> cmp(self_, other_)]

\* ------------------------------------------------------------------------
\* Assertion: the state machine of one assertion value
\* ------------------------------------------------------------------------

\* the assertions handed to overlaps_with / cmp / partial_cmp as `other`:
\* everything the three constructors return for the first element value
Others ==
    {single(r, s, 10).val : r \in Registers, s \in Usize}
    \cup {c.val : c \in {x \in {periodic(r, s, st, 10) :
                                   r \in Registers, s \in Usize, st \in Usize} :
                             ~x.panic}}
    \cup {c.val : c \in {x \in {sequence(r, s, st, vs) :
                                   r \in Registers, s \in Usize, st \in Usize,
                                   vs \in ValueLists} :
                             ~x.panic}}

AInit ==
    /\ build \in Builds
    /\ pc = "new"
    /\ ctor = "none"
    /\ args = NoAssertion
    /\ self = NoAssertion
    /\ other = NoAssertion
    /\ op = "none"
    /\ arg = 0
    /\ ret = NoResult
    /\ i = 0
    /\ calls = <<>>

\* the table is not part of an assertion's state
TIdle ==
    /\ main_segment_polys = <<>>
    /\ aux_segment_polys = <<>>
    /\ tpc = "none"
    /\ top = "none"
    /\ targ = <<>>
    /\ tret = 0

\* no field function has been applied
FIdle ==
    /\ fop = "none"
    /\ fin = <<>>
    /\ fout = <<>>

Init == AInit /\ TIdle /\ FIdle

\* a constructor call with the arguments `given` and the outcome `out`
Construct(name, given, out) ==
    /\ pc = "new"
    /\ ctor' = name
    /\ args' = given
    /\ pc' = IF out.panic THEN "aborted" ELSE "ready"
    /\ self' = out.val
    /\ UNCHANGED <<build, other, op, arg, ret, i, calls, tvars, fvars>>

Single ==
    /\ pc = "new"
    /\ \E r \in Registers, s \in Usize, v \in Elems :
        Construct("single", Assertion(r, s, NO_STRIDE, <<v>>), single(r, s, v))

Periodic ==
    /\ pc = "new"
    /\ \E r \in Registers, s \in Usize, st \in Usize, v \in Elems :
        Construct("periodic", Assertion(r, s, st, <<v>>), periodic(r, s, st, v))

Sequence ==
    /\ pc = "new"
    /\ \E r \in Registers, s \in Usize, st \in Usize, vs \in ValueLists :
        Construct("sequence", Assertion(r, s, st, vs), sequence(r, s, st, vs))

\* a method of &self that runs to its end in one step
Method(name, o, n, result) ==
    /\ pc = "ready"
    /\ op' = name
    /\ other' = o
    /\ arg' = n
    /\ ret' = result
    /\ pc' = IF result = Panicked THEN "panicked" ELSE "returned"
    /\ UNCHANGED <<build, ctor, args, self, i, calls, tvars, fvars>>

OverlapsWith ==
    /\ pc = "ready"
    /\ \E o \in Others :
        Method("overlaps_with", o, 0, [bool |-> overlaps_with(self, o)])

Cmp ==
    /\ pc = "ready"
    /\ \E o \in Others : Method("cmp", o, 0, [ord |-> cmp(self, o)])

PartialCmp ==
    /\ pc = "ready"
    /\ \E o \in Others : Method("partial_cmp", o, 0, partial_cmp(self, o))

ValidateTraceWidth ==
    /\ pc = "ready"
    /\ \E w \in Usize :
        Method("validate_trace_width", NoAssertion, w, validate_trace_width(self, w))

ValidateTraceLength ==
    /\ pc = "ready"
    /\ \E n \in Usize :
        Method("validate_trace_length", NoAssertion, n, validate_trace_length(self, n))

GetNumSteps ==
    /\ pc = "ready"
    /\ \E n \in Usize :
        Method("get_num_steps", NoAssertion, n, get_num_steps(self, n))

\* variant: apply goes to the callbacks without validating the length
ApplyUnvalidated ==
    /\ pc = "ready"
    /\ \E n \in Usize :
        /\ op' = "apply"
        /\ arg' = n
    /\ pc' = "applying"
    /\ ret' = NoResult
    /\ i' = 0
    /\ calls' = <<>>
    /\ UNCHANGED <<build, ctor, args, self, other, tvars, fvars>>

\* apply: the validation that precedes the callbacks
ApplyValidate ==
    /\ pc = "ready"
    /\ \E n \in Usize :
        /\ op' = "apply"
        /\ arg' = n
        /\ pc' = IF validate_trace_length(self, n) = OkResult
                 THEN "applying" ELSE "panicked"
        /\ ret' = IF validate_trace_length(self, n) = OkResult
                  THEN NoResult ELSE Panicked
    /\ i' = 0
    /\ calls' = <<>>
    /\ UNCHANGED <<build, ctor, args, self, other, tvars, fvars>>

\* apply: one invocation of f
ApplyCall ==
    /\ pc = "applying"
    /\ i < apply_count(self, arg)
    /\ LET product == self.stride * i
           step == apply_step(self, i)
       IN  IF build = "debug" /\ (Overflows(product) \/ Overflows(step))
           THEN /\ pc' = "panicked"
                /\ ret' = Panicked
                /\ UNCHANGED <<i, calls>>
           ELSE /\ calls' = Append(calls, <<Wrapped(step), apply_value(self, i)>>)
                /\ i' = i + 1
                /\ UNCHANGED <<pc, ret>>
    /\ UNCHANGED <<build, ctor, args, self, other, op, arg, tvars, fvars>>

\* apply: the loop is over and apply returns
ApplyReturn ==
    /\ pc = "applying"
    /\ i >= apply_count(self, arg)
    /\ pc' = "returned"
    /\ ret' = [unit |-> TRUE]
    /\ UNCHANGED <<build, ctor, args, self, other, op, arg, i, calls, tvars, fvars>>

\* the caller takes the result; the assertion can be used again
Return ==
    /\ pc = "returned"
    /\ pc' = "ready"
    /\ op' = "none"
    /\ other' = NoAssertion
    /\ arg' = 0
    /\ ret' = NoResult
    /\ i' = 0
    /\ calls' = <<>>
    /\ UNCHANGED <<build, ctor, args, self, tvars, fvars>>

Next ==
    \/ Single
    \/ Periodic
    \/ Sequence
    \/ OverlapsWith
    \/ Cmp
    \/ PartialCmp
    \/ ValidateTraceWidth
    \/ ValidateTraceLength
    \/ GetNumSteps
    \/ ApplyValidate
    \/ ApplyCall
    \/ ApplyReturn
    \/ Return

Spec == Init /\ [][Next]_vars

\* ------------------------------------------------------------------------
\* Base field and its extensions
\* ------------------------------------------------------------------------

\* the prime modulus of the base field, MaxExp the largest exponent given
\* to exp
M == 13
MaxExp == 6

\* base field elements are the residues; add, sub, neg and mul return the
\* canonical result mod M
BaseElements == 0 .. M - 1
base_add(a, b) == (a + b) % M
base_sub(a, b) == (a + M - b) % M
\* variant: the operand is subtracted from M - 1
base_neg_from_max(a) == (M - 1 - a) % M
base_neg(a) == (M - a) % M
base_mul(a, b) == (a * b) % M

\* BaseElement::inv: ZERO for ZERO, otherwise the multiplicative inverse
base_inv(a) ==
    IF a = 0 THEN 0 ELSE CHOOSE y \in BaseElements : base_mul(a, y) = 1

\* BaseElement::exp, by squaring
RECURSIVE base_exp_loop(_, _, _)
base_exp_loop(r, b, p) ==
    IF p = 0 THEN r
    ELSE base_exp_loop(IF p % 2 = 1 THEN base_mul(r, b) ELSE r,
                       base_mul(b, b), p \div 2)

base_exp(b, power) ==
    IF power = 0 THEN 1
    ELSE IF b = 0 THEN 0
    ELSE base_exp_loop(1, b, power)

\* QuadExtensionA(B, B): the element x[1] + x[2] * phi
QuadElements == BaseElements \X BaseElements
QUAD_ZERO == <<0, 0>>
QUAD_ONE == <<1, 0>>

\* From<B> for QuadExtensionA
quad_from(value) == <<value, 0>>

\* Add for QuadExtensionA
quad_add(x, rhs) == <<base_add(x[1], rhs[1]), base_add(x[2], rhs[2])>>

\* variant: coef0_mul is not subtracted from the second coefficient
quad_mul_no_sub(x, rhs) ==
    LET coef0_mul == base_mul(x[1], rhs[1])
    IN  <<base_add(coef0_mul, base_mul(x[2], rhs[2])),
          base_mul(base_add(x[1], x[2]), base_add(rhs[1], rhs[2]))>>

\* Mul for QuadExtensionA
quad_mul(x, rhs) ==
    LET coef0_mul == base_mul(x[1], rhs[1])
    IN  <<base_add(coef0_mul, base_mul(x[2], rhs[2])),
          base_sub(base_mul(base_add(x[1], x[2]), base_add(rhs[1], rhs[2])),
                   coef0_mul)>>

\* FieldElement::square
quad_square(x) == quad_mul(x, x)

RECURSIVE quad_exp_loop(_, _, _)
quad_exp_loop(r, b, p) ==
    IF p = 0 THEN r
    ELSE quad_exp_loop(IF p % 2 = 1 THEN quad_mul(r, b) ELSE r,
                       quad_square(b), p \div 2)

\* variant: the test for a ZERO base precedes the test for a zero power
quad_exp_zero_first(x, power) ==
    IF x = QUAD_ZERO THEN QUAD_ZERO
    ELSE IF power = 0 THEN QUAD_ONE
    ELSE quad_exp_loop(QUAD_ONE, x, power)

\* QuadExtensionA::exp
quad_exp(x, power) ==
    IF power = 0 THEN QUAD_ONE
    ELSE IF x = QUAD_ZERO THEN QUAD_ZERO
    ELSE quad_exp_loop(QUAD_ONE, x, power)

\* variant: the denominator is a^2 - ab - b^2
quad_inv_minus(x) ==
    IF x = QUAD_ZERO THEN QUAD_ZERO
    ELSE LET denom ==
                 base_sub(base_sub(base_mul(x[1], x[1]), base_mul(x[1], x[2])),
                          base_mul(x[2], x[2]))
             denom_inv == base_inv(denom)
         IN  <<base_mul(base_add(x[1], x[2]), denom_inv),
               base_mul(base_neg(x[2]), denom_inv)>>

\* QuadExtensionA::inv
quad_inv(x) ==
    IF x = QUAD_ZERO THEN QUAD_ZERO
    ELSE LET denom ==
                 base_sub(base_add(base_mul(x[1], x[1]), base_mul(x[1], x[2])),
                          base_mul(x[2], x[2]))
             denom_inv == base_inv(denom)
         IN  <<base_mul(base_add(x[1], x[2]), denom_inv),
               base_mul(base_neg(x[2]), denom_inv)>>

\* CubeExtension(B, B, B): the element x[1] + x[2] * phi + x[3] * phi^2
CubeElements == BaseElements \X BaseElements \X BaseElements
CUBE_ZERO == <<0, 0, 0>>
CUBE_ONE == <<1, 0, 0>>

\* ExtensibleField<3>::mul: the product of the two polynomials reduced
\* with phi^3 = phi + 1
cube_mul(x, rhs) ==
    LET c0 == base_mul(x[1], rhs[1])
        c1 == base_add(base_mul(x[1], rhs[2]), base_mul(x[2], rhs[1]))
        c2 == base_add(base_add(base_mul(x[1], rhs[3]), base_mul(x[2], rhs[2])),
                       base_mul(x[3], rhs[1]))
        c3 == base_add(base_mul(x[2], rhs[3]), base_mul(x[3], rhs[2]))
        c4 == base_mul(x[3], rhs[3])
    IN  <<base_add(c0, c3), base_add(base_add(c1, c3), c4), base_add(c2, c4)>>

cube_square(x) == cube_mul(x, x)

RECURSIVE cube_exp_loop(_, _, _)
cube_exp_loop(r, b, p) ==
    IF p = 0 THEN r
    ELSE cube_exp_loop(IF p % 2 = 1 THEN cube_mul(r, b) ELSE r,
                       cube_square(b), p \div 2)

\* CubeExtension::exp
cube_exp(x, power) ==
    IF power = 0 THEN CUBE_ONE
    ELSE IF x = CUBE_ZERO THEN CUBE_ZERO
    ELSE cube_exp_loop(CUBE_ONE, x, power)

\* ------------------------------------------------------------------------
\* Trace polynomial table
\* ------------------------------------------------------------------------

\* a matrix is the sequence of its columns, each the sequence of the
\* coefficients of one polynomial in ascending degree; column j of a matrix
\* of the model with c columns holds the coefficients c * j, c * j + 1, ...
ColumnPoly(rows, j, c) == [k \in 1 .. rows |-> (c * j + k - 1) % M]

\* Matrix<E::BaseField>: the columns hold base field elements
MainMatrices ==
    {[j \in 1 .. cols |-> ColumnPoly(2 ^ lg, j, cols)] :
        lg \in 0 .. MaxLogRows, cols \in 1 .. MaxCols}

\* Matrix<E>: the columns hold extension field elements
AuxMatrices ==
    {[j \in 1 .. cols |-> [k \in 1 .. 2 ^ lg |-> <<ColumnPoly(2 ^ lg, j, cols)[k], j>>]] :
        lg \in 0 .. MaxLogRows, cols \in 1 .. MaxCols}

\* Matrix::num_rows and Matrix::num_cols
num_rows(m) == Len(m[1])
num_cols(m) == Len(m)

\* TracePolyTable::new
new(main_trace_polys) ==
    [main_segment_polys |-> main_trace_polys, aux_segment_polys |-> <<>>]

\* variant: the assert_eq! is missing
add_aux_segment_unchecked(main_, aux_, segment) ==
    [panic |-> FALSE, aux |-> Append(aux_, segment)]

\* TracePolyTable::add_aux_segment on a table with the segments main_ and
\* aux_: the assert_eq! panics, or the new auxiliary list
add_aux_segment(main_, aux_, segment) ==
    IF num_rows(main_) # num_rows(segment)
    THEN [panic |-> TRUE, aux |-> aux_]
    ELSE [panic |-> FALSE, aux |-> Append(aux_, segment)]

\* TracePolyTable::poly_size
poly_size(main_) == num_rows(main_)

\* bounds of the arguments of get_ood_frame
MaxPow == 2
MaxRatio == 2

\* the points the polynomials are evaluated at
Points == {<<2, 0>>, <<3, 5>>}

\* polynom::eval: Horner's rule over the coefficients p[k], p[k + 1], ...
RECURSIVE eval_from(_, _, _)
eval_from(p, x, k) ==
    IF k > Len(p) THEN QUAD_ZERO
    ELSE quad_add(quad_mul(eval_from(p, x, k + 1), x), p[k])

eval(p, x) == eval_from(p, x, 1)

\* the base field coefficients of a matrix as extension field elements
lifted(m) ==
    [j \in 1 .. num_cols(m) |-> [k \in 1 .. num_rows(m) |-> quad_from(m[j][k])]]

\* Matrix::evaluate_columns_at for a matrix of extension field elements
evaluate_columns_at(m, x) == [j \in 1 .. num_cols(m) |-> eval(m[j], x)]

\* the loop of evaluate_at from the k-th auxiliary segment on
RECURSIVE evaluate_at_loop(_, _, _, _)
evaluate_at_loop(result, aux_, x, k) ==
    IF k > Len(aux_) THEN result
    ELSE evaluate_at_loop(result \o evaluate_columns_at(aux_[k], x), aux_, x, k + 1)

\* variant: the auxiliary segments are visited last to first
evaluate_at_reversed(main_, aux_, x) ==
    evaluate_at_loop(evaluate_columns_at(lifted(main_), x),
                     [k \in 1 .. Len(aux_) |-> aux_[Len(aux_) + 1 - k]], x, 1)

\* TracePolyTable::evaluate_at
evaluate_at(main_, aux_, x) ==
    evaluate_at_loop(evaluate_columns_at(lifted(main_), x), aux_, x, 1)

\* log2 of a power of two
log2(n) == CHOOSE k \in 0 .. n : 2 ^ k = n

\* M - 1 is 2^TWO_ADICITY times an odd number, and TWO_ADIC_ROOT_OF_UNITY
\* has the order 2^TWO_ADICITY
TWO_ADICITY ==
    CHOOSE s \in 0 .. M : (M - 1) % (2 ^ s) = 0 /\ (M - 1) % (2 ^ (s + 1)) # 0
TWO_ADIC_ROOT_OF_UNITY ==
    CHOOSE g \in BaseElements :
        /\ base_exp(g, 2 ^ TWO_ADICITY) = 1
        /\ TWO_ADICITY > 0 => base_exp(g, 2 ^ (TWO_ADICITY - 1)) # 1

\* variant: the root of the order 2^TWO_ADICITY for every n
get_root_of_unity_no_power(n) ==
    IF n > TWO_ADICITY THEN [panic |-> TRUE, val |-> 0]
    ELSE [panic |-> FALSE, val |-> TWO_ADIC_ROOT_OF_UNITY]

\* StarkField::get_root_of_unity: a root of unity of order 2^n, no result
\* for n > TWO_ADICITY
get_root_of_unity(n) ==
    IF n > TWO_ADICITY THEN [panic |-> TRUE, val |-> 0]
    ELSE [panic |-> FALSE,
          val |-> base_exp(TWO_ADIC_ROOT_OF_UNITY, 2 ^ (TWO_ADICITY - n))]

\* get_power_series_with_offset: s, s * b, ..., s * b^(n - 1)
RECURSIVE get_power_series_with_offset(_, _, _)
get_power_series_with_offset(b, s, n) ==
    IF n = 0 THEN <<>>
    ELSE <<s>> \o get_power_series_with_offset(b, quad_mul(s, b), n - 1)

\* flat_map(..).collect(): the sequences of seqs one after another
RECURSIVE flatten(_)
flatten(seqs) ==
    IF seqs = <<>> THEN <<>> ELSE Head(seqs) \o flatten(Tail(seqs))

\* variant: the power series is not offset by z
get_ood_frame_no_offset(main_, aux_, z, max_pow, ratio) ==
    LET root == get_root_of_unity(log2(poly_size(main_)))
        g == quad_from(root.val)
        points == get_power_series_with_offset(g, QUAD_ONE, max_pow)
        current ==
            flatten([k \in 1 .. Len(points) |-> evaluate_at(main_, aux_, points[k])])
        next == evaluate_at(main_, aux_, quad_mul(z, quad_exp(g, ratio)))
    IN  IF root.panic THEN [panic |-> TRUE, frame |-> <<>>]
        ELSE [panic |-> FALSE, frame |-> <<current, next>>]

\* variant: the next row is evaluated at z * g^(ratio + 1)
get_ood_frame_ratio_plus_one(main_, aux_, z, max_pow, ratio) ==
    LET root == get_root_of_unity(log2(poly_size(main_)))
        g == quad_from(root.val)
        points == get_power_series_with_offset(g, z, max_pow)
        current ==
            flatten([k \in 1 .. Len(points) |-> evaluate_at(main_, aux_, points[k])])
        next == evaluate_at(main_, aux_, quad_mul(z, quad_exp(g, ratio + 1)))
    IN  IF root.panic THEN [panic |-> TRUE, frame |-> <<>>]
        ELSE [panic |-> FALSE, frame |-> <<current, next>>]

\* TracePolyTable::get_ood_frame: the two rows, or the panic of
\* get_root_of_unity
get_ood_frame(main_, aux_, z, max_pow, ratio) ==
    LET root == get_root_of_unity(log2(poly_size(main_)))
        g == quad_from(root.val)
        points == get_power_series_with_offset(g, z, max_pow)
        current ==
            flatten([k \in 1 .. Len(points) |-> evaluate_at(main_, aux_, points[k])])
        next == evaluate_at(main_, aux_, quad_mul(z, quad_exp(g, ratio)))
    IN  IF root.panic THEN [panic |-> TRUE, frame |-> <<>>]
        ELSE [panic |-> FALSE, frame |-> <<current, next>>]

\* TracePolyTable::main_trace_polys: the columns of the main segment
main_trace_polys(main_) == [j \in 1 .. num_cols(main_) |-> main_[j]]

\* TracePolyTable::aux_trace_polys: the columns of all auxiliary segments
aux_trace_polys(aux_) == flatten(aux_)

\* no assertion has been constructed
ANone ==
    /\ pc = "none"
    /\ ctor = "none"
    /\ args = NoAssertion
    /\ self = NoAssertion
    /\ other = NoAssertion
    /\ op = "none"
    /\ arg = 0
    /\ ret = NoResult
    /\ i = 0
    /\ calls = <<>>

\* no assertion is part of a table's state
AIdle == build = "release" /\ ANone

\* the table returned by TracePolyTable::new(main)
TInit ==
    /\ \E m \in MainMatrices :
        /\ main_segment_polys = new(m).main_segment_polys
        /\ aux_segment_polys = new(m).aux_segment_polys
    /\ tpc = "ready"
    /\ top = "new"
    /\ targ = <<>>
    /\ tret = 0

AddAuxSegment ==
    /\ tpc = "ready"
    /\ Len(aux_segment_polys) < MaxAux
    /\ \E m \in AuxMatrices :
        LET out == add_aux_segment(main_segment_polys, aux_segment_polys, m)
        IN  /\ targ' = m
            /\ aux_segment_polys' = out.aux
            /\ tpc' = IF out.panic THEN "panicked" ELSE "ready"
    /\ top' = "add_aux_segment"
    /\ UNCHANGED <<main_segment_polys, tret, avars, fvars>>

PolySize ==
    /\ tpc = "ready"
    /\ top' = "poly_size"
    /\ tret' = poly_size(main_segment_polys)
    /\ tpc' = "returned"
    /\ UNCHANGED <<main_segment_polys, aux_segment_polys, targ, avars, fvars>>

\* variant: evaluate_at drains the auxiliary list
EvaluateAtDraining ==
    /\ tpc = "ready"
    /\ \E x \in Points :
        /\ targ' = x
        /\ tret' = evaluate_at(main_segment_polys, aux_segment_polys, x)
    /\ top' = "evaluate_at"
    /\ tpc' = "returned"
    /\ aux_segment_polys' = <<>>
    /\ UNCHANGED <<main_segment_polys, avars, fvars>>

EvaluateAt ==
    /\ tpc = "ready"
    /\ \E x \in Points :
        /\ targ' = x
        /\ tret' = evaluate_at(main_segment_polys, aux_segment_polys, x)
    /\ top' = "evaluate_at"
    /\ tpc' = "returned"
    /\ UNCHANGED <<main_segment_polys, aux_segment_polys, avars, fvars>>

GetOodFrame ==
    /\ tpc = "ready"
    /\ \E z \in Points, max_pow \in 0 .. MaxPow, ratio \in 0 .. MaxRatio :
        LET out == get_ood_frame(main_segment_polys, aux_segment_polys,
                                 z, max_pow, ratio)
        IN  /\ targ' = [z |-> z, max_pow |-> max_pow, ratio |-> ratio]
            /\ tret' = out.frame
            /\ tpc' = IF out.panic THEN "panicked" ELSE "returned"
    /\ top' = "get_ood_frame"
    /\ UNCHANGED <<main_segment_polys, aux_segment_polys, avars, fvars>>

MainTracePolys ==
    /\ tpc = "ready"
    /\ top' = "main_trace_polys"
    /\ tret' = main_trace_polys(main_segment_polys)
    /\ tpc' = "returned"
    /\ UNCHANGED <<main_segment_polys, aux_segment_polys, targ, avars, fvars>>

AuxTracePolys ==
    /\ tpc = "ready"
    /\ top' = "aux_trace_polys"
    /\ tret' = aux_trace_polys(aux_segment_polys)
    /\ tpc' = "returned"
    /\ UNCHANGED <<main_segment_polys, aux_segment_polys, targ, avars, fvars>>

\* the caller has taken the result of an accessor
TableReturn ==
    /\ tpc = "returned"
    /\ tpc' = "ready"
    /\ top' = "none"
    /\ targ' = <<>>
    /\ tret' = 0
    /\ UNCHANGED <<main_segment_polys, aux_segment_polys, avars, fvars>>

TableInit == AIdle /\ TInit /\ FIdle

TableNext ==
    \/ AddAuxSegment
    \/ PolySize
    \/ EvaluateAt
    \/ GetOodFrame
    \/ MainTracePolys
    \/ AuxTracePolys
    \/ TableReturn

SpecTable == TableInit /\ [][TableNext]_vars

\* ------------------------------------------------------------------------
\* Field arithmetic: one function applied to arguments drawn from the field
\* ------------------------------------------------------------------------

FieldInit == AIdle /\ TIdle /\ FIdle

BaseExp ==
    /\ fop = "none"
    /\ \E x \in BaseElements, power \in 0 .. MaxExp :
        /\ fin' = [x |-> x, power |-> power]
        /\ fout' = base_exp(x, power)
    /\ fop' = "base_exp"
    /\ UNCHANGED <<avars, tvars>>

QuadExp ==
    /\ fop = "none"
    /\ \E x \in QuadElements, power \in 0 .. MaxExp :
        /\ fin' = [x |-> x, power |-> power]
        /\ fout' = quad_exp(x, power)
    /\ fop' = "quad_exp"
    /\ UNCHANGED <<avars, tvars>>

CubeExp ==
    /\ fop = "none"
    /\ \E x \in CubeElements, power \in 0 .. MaxExp :
        /\ fin' = [x |-> x, power |-> power]
        /\ fout' = cube_exp(x, power)
    /\ fop' = "cube_exp"
    /\ UNCHANGED <<avars, tvars>>

QuadInv ==
    /\ fop = "none"
    /\ \E x \in QuadElements :
        /\ fin' = [x |-> x]
        /\ fout' = quad_inv(x)
    /\ fop' = "quad_inv"
    /\ UNCHANGED <<avars, tvars>>

QuadMul ==
    /\ fop = "none"
    /\ \E x \in QuadElements, rhs \in QuadElements :
        /\ fin' = [x |-> x, rhs |-> rhs]
        /\ fout' = quad_mul(x, rhs)
    /\ fop' = "quad_mul"
    /\ UNCHANGED <<avars, tvars>>

\* the greatest length of a vector given to batch_inversion
MaxBatch == 4

\* batch_inversion, forward pass: the entry of each value is the product
\* of the non-zero values before it
RECURSIVE prefix_products(_, _)
prefix_products(values, last) ==
    IF values = <<>> THEN <<>>
    ELSE <<last>> \o
         prefix_products(Tail(values),
                         IF Head(values) = 0 THEN last
                         ELSE base_mul(last, Head(values)))

\* the product of the non-zero values, zeros counting as ONE
RECURSIVE product_of_non_zero(_)
product_of_non_zero(values) ==
    IF values = <<>> THEN 1
    ELSE IF Head(values) = 0 THEN product_of_non_zero(Tail(values))
    ELSE base_mul(Head(values), product_of_non_zero(Tail(values)))

\* batch_inversion, backward pass from the entry k down to the first
RECURSIVE backward_pass(_, _, _, _)
backward_pass(values, result, last, k) ==
    IF k = 0 THEN result
    ELSE IF values[k] = 0
    THEN backward_pass(values, [result EXCEPT ![k] = 0], last, k - 1)
    ELSE backward_pass(values,
                       [result EXCEPT ![k] = base_mul(result[k], last)],
                       base_mul(last, values[k]), k - 1)

\* variant: the zeros are multiplied into the product that is inverted
batch_inversion_with_zeros(values) ==
    backward_pass(values, prefix_products(values, 1),
                  base_inv(IF \E k \in 1 .. Len(values) : values[k] = 0
                           THEN 0 ELSE product_of_non_zero(values)),
                  Len(values))

\* batch_inversion: one inversion for the whole vector
batch_inversion(values) ==
    backward_pass(values, prefix_products(values, 1),
                  base_inv(product_of_non_zero(values)), Len(values))

\* frobenius of ExtensibleField<3>: the M-th power of an element
frobenius(x) == cube_exp(x, M)

\* variant: the first conjugate is the element itself
cube_inv_no_frobenius(bld, x) ==
    IF x = CUBE_ZERO
    THEN [panic |-> FALSE, numerator |-> x, norm |-> x, val |-> x]
    ELSE LET c1 == x
             c2 == frobenius(c1)
             numerator == cube_mul(c1, c2)
             norm == cube_mul(x, numerator)
             denom_inv == base_inv(norm[1])
         IN  IF bld = "debug" /\ (norm[2] # 0 \/ norm[3] # 0)
             THEN [panic |-> TRUE, numerator |-> numerator, norm |-> norm,
                   val |-> x]
             ELSE [panic |-> FALSE, numerator |-> numerator, norm |-> norm,
                   val |-> <<base_mul(numerator[1], denom_inv),
                             base_mul(numerator[2], denom_inv),
                             base_mul(numerator[3], denom_inv)>>]

\* CubeExtension::inv in the build bld: the result val, the numerator and
\* the norm it was computed from, or the panic of a debug assertion
cube_inv(bld, x) ==
    IF x = CUBE_ZERO
    THEN [panic |-> FALSE, numerator |-> x, norm |-> x, val |-> x]
    ELSE LET c1 == frobenius(x)
             c2 == frobenius(c1)
             numerator == cube_mul(c1, c2)
             norm == cube_mul(x, numerator)
             denom_inv == base_inv(norm[1])
         IN  IF bld = "debug" /\ (norm[2] # 0 \/ norm[3] # 0)
             THEN [panic |-> TRUE, numerator |-> numerator, norm |-> norm,
                   val |-> x]
             ELSE [panic |-> FALSE, numerator |-> numerator, norm |-> norm,
                   val |-> <<base_mul(numerator[1], denom_inv),
                             base_mul(numerator[2], denom_inv),
                             base_mul(numerator[3], denom_inv)>>]

\* the vectors of up to MaxBatch of the first base field elements
RECURSIVE BatchesOfLen(_)
BatchesOfLen(n) ==
    IF n = 0 THEN {<<>>}
    ELSE {Append(s, x) : s \in BatchesOfLen(n - 1), x \in 0 .. 3}
Batches == UNION {BatchesOfLen(n) : n \in 0 .. MaxBatch}

BatchInversion ==
    /\ fop = "none"
    /\ \E values \in Batches :
        /\ fin' = [values |-> values]
        /\ fout' = batch_inversion(values)
    /\ fop' = "batch_inversion"
    /\ UNCHANGED <<avars, tvars>>

GetRootOfUnity ==
    /\ fop = "none"
    /\ \E n \in 0 .. TWO_ADICITY + 1 :
        /\ fin' = [n |-> n]
        /\ fout' = get_root_of_unity(n)
    /\ fop' = "get_root_of_unity"
    /\ UNCHANGED <<avars, tvars>>

\* inv of a cubic element, with and without debug assertions
CubeInv ==
    /\ fop = "none"
    /\ \E x \in CubeElements, bld \in Builds :
        /\ fin' = [x |-> x, build |-> bld]
        /\ fout' = cube_inv(bld, x)
    /\ fop' = "cube_inv"
    /\ UNCHANGED <<avars, tvars>>

FieldNext ==
    \/ BaseExp
    \/ QuadExp
    \/ CubeExp
    \/ QuadInv
    \/ QuadMul
    \/ BatchInversion
    \/ GetRootOfUnity
    \/ CubeInv

SpecField == FieldInit /\ [][FieldNext]_vars

\* ------------------------------------------------------------------------
\* Memory layout of extension field elements
\* ------------------------------------------------------------------------

\* a byte has ByteBits bits, a base field element takes BASE_ELEMENT_BYTES
\* bytes of memory, a slice holds up to MaxElems elements
ByteBits == 2
BASE_ELEMENT_BYTES == 2
MaxElems == 2

ByteBase == 2 ^ ByteBits

\* the words stored as base field elements, the last one wider than a byte
Words == {1, ByteBase + 2}

\* ELEMENT_BYTES of the extension of degree d
ELEMENT_BYTES(d) == BASE_ELEMENT_BYTES * d

\* the little-endian bytes of the word w, and the word of the bytes b
to_le_bytes(w) ==
    [k \in 1 .. BASE_ELEMENT_BYTES |-> (w \div (ByteBase ^ (k - 1))) % ByteBase]

RECURSIVE from_le_bytes(_)
from_le_bytes(b) ==
    IF b = <<>> THEN 0 ELSE Head(b) + ByteBase * from_le_bytes(Tail(b))

\* the slices of up to MaxElems elements of the extension of degree d
Tuples(d) == [1 .. d -> Words]
RECURSIVE SlicesOfLen(_, _)
SlicesOfLen(d, n) ==
    IF n = 0 THEN {<<>>}
    ELSE {Append(s, x) : s \in SlicesOfLen(d, n - 1), x \in Tuples(d)}
Slices(d) == UNION {SlicesOfLen(d, n) : n \in 0 .. MaxElems}

\* the base field elements in the memory of a slice of #[repr(C)]
\* elements: the components of its elements one after another
memory_words(elements) == flatten(elements)

\* the bytes in the memory of a slice of elements
memory_bytes(elements) ==
    flatten([k \in 1 .. Len(memory_words(elements)) |->
                to_le_bytes(memory_words(elements)[k])])

\* slice::from_raw_parts(ptr as *const B, len) on the memory `words`
words_from_raw_parts(words, len) == SubSeq(words, 1, len)

\* slice::from_raw_parts(ptr as *const u8, len) on the memory `bytes`
bytes_from_raw_parts(bytes, len) == SubSeq(bytes, 1, len)

\* slice::from_raw_parts(ptr as *const Self, len) on the memory `bytes`:
\* element n is the d base field elements from byte (n - 1) * ELEMENT_BYTES
elements_from_raw_parts(d, bytes, len) ==
    [n \in 1 .. len |->
        [c \in 1 .. d |->
            from_le_bytes(
                SubSeq(bytes,
                       (n - 1) * ELEMENT_BYTES(d) + (c - 1) * BASE_ELEMENT_BYTES + 1,
                       (n - 1) * ELEMENT_BYTES(d) + c * BASE_ELEMENT_BYTES))]]

\* variant: the length is counted in base field elements
elements_as_bytes_base_len(d, elements) ==
    bytes_from_raw_parts(memory_bytes(elements), Len(elements) * BASE_ELEMENT_BYTES)

\* elements_as_bytes of the extension of degree d
elements_as_bytes(d, elements) ==
    bytes_from_raw_parts(memory_bytes(elements), Len(elements) * ELEMENT_BYTES(d))

\* as_base_elements of the extension of degree d
as_base_elements(d, elements) ==
    words_from_raw_parts(memory_words(elements), Len(elements) * d)

\* results of bytes_as_elements
OkElements(elements) == [tag |-> "Ok", msg |-> "", elements |-> elements]
InvalidValue(msg) == [tag |-> "InvalidValue", msg |-> msg, elements |-> <<>>]

\* variant: the alignment is tested before the length
bytes_as_elements_align_first(d, p, bytes) ==
    IF p % BASE_ELEMENT_BYTES # 0
    THEN InvalidValue("slice memory alignment is not valid for this field element type")
    ELSE IF Len(bytes) % ELEMENT_BYTES(d) # 0
    THEN InvalidValue("number of bytes does not divide into whole number of field elements")
    ELSE OkElements(elements_from_raw_parts(d, bytes, Len(bytes) \div ELEMENT_BYTES(d)))

\* bytes_as_elements of the extension of degree d for the bytes at address p
bytes_as_elements(d, p, bytes) ==
    IF Len(bytes) % ELEMENT_BYTES(d) # 0
    THEN InvalidValue("number of bytes does not divide into whole number of field elements")
    ELSE IF p % BASE_ELEMENT_BYTES # 0
    THEN InvalidValue("slice memory alignment is not valid for this field element type")
    ELSE OkElements(elements_from_raw_parts(d, bytes, Len(bytes) \div ELEMENT_BYTES(d)))

\* BaseElement::zeroed_vector: n zeroed base field elements
base_zeroed_vector(n) == [words |-> [k \in 1 .. n |-> 0], cap |-> n]

\* base_to_quad_vector of the extension of degree d: the debug_assert!
\* fails, or the vector of source.len() / d elements over the memory of
\* source
base_to_quad_vector(d, bld, source) ==
    IF bld = "debug" /\ Len(source.words) % d # 0
    THEN [panic |-> TRUE, elements |-> <<>>, cap |-> 0]
    ELSE [panic |-> FALSE,
          elements |-> [n \in 1 .. Len(source.words) \div d |->
                           [c \in 1 .. d |-> source.words[(n - 1) * d + c]]],
          cap |-> source.cap \div d]

\* zeroed_vector of the extension of degree d: both extensions allocate
\* n * 2 base field elements
zeroed_vector(d, bld, n) ==
    IF Overflows(n * 2) /\ bld = "debug"
    THEN [panic |-> TRUE, elements |-> <<>>, cap |-> 0]
    ELSE base_to_quad_vector(d, bld, base_zeroed_vector(Wrapped(n * 2)))

\* the degrees of the extensions
Degrees == {2, 3}

\* stray bytes after the memory of a slice
Tails(d) == {[k \in 1 .. n |-> 1] : n \in 0 .. ELEMENT_BYTES(d) - 1}

LayoutInit == build \in Builds /\ ANone /\ TIdle /\ FIdle

ZeroedVector ==
    /\ fop = "none"
    /\ \E d \in Degrees, n \in Usize :
        /\ fin' = [d |-> d, n |-> n]
        /\ fout' = zeroed_vector(d, build, n)
    /\ fop' = "zeroed_vector"
    /\ UNCHANGED <<avars, tvars>>

\* the slice of elements lies at the address p, a multiple of the size of
\* a base field element, and so does the slice of its bytes
ElementsAsBytes ==
    /\ fop = "none"
    /\ \E d \in Degrees, p \in {0, BASE_ELEMENT_BYTES} :
        \E elements \in Slices(d) :
            /\ fin' = [d |-> d, p |-> p, elements |-> elements]
            /\ fout' = [p |-> p, bytes |-> elements_as_bytes(d, elements)]
    /\ fop' = "elements_as_bytes"
    /\ UNCHANGED <<avars, tvars>>

AsBaseElements ==
    /\ fop = "none"
    /\ \E d \in Degrees :
        \E elements \in Slices(d) :
            /\ fin' = [d |-> d, elements |-> elements]
            /\ fout' = as_base_elements(d, elements)
    /\ fop' = "as_base_elements"
    /\ UNCHANGED <<avars, tvars>>

\* the bytes at any address p: the memory of a slice and stray bytes
BytesAsElements ==
    /\ fop = "none"
    /\ \E d \in Degrees, p \in 0 .. BASE_ELEMENT_BYTES :
        \E elements \in Slices(d), tail \in Tails(d) :
            /\ fin' = [d |-> d, p |-> p, bytes |-> memory_bytes(elements) \o tail]
            /\ fout' = bytes_as_elements(d, p, memory_bytes(elements) \o tail)
    /\ fop' = "bytes_as_elements"
    /\ UNCHANGED <<avars, tvars>>

LayoutNext ==
    \/ ZeroedVector
    \/ ElementsAsBytes
    \/ AsBaseElements
    \/ BytesAsElements

SpecLayout == LayoutInit /\ [][LayoutNext]_vars

\* ------------------------------------------------------------------------
\* Properties
\* ------------------------------------------------------------------------

\* validate_trace_length(n) is Ok for the assertion a
ValidFor(a, n) == validate_trace_length(a, n) = OkResult

\* the steps apply(n, f) passes to f for the assertion a
AppliedSteps(a, n) ==
    {Wrapped(apply_step(a, k)) : k \in 0 .. apply_count(a, n) - 1}

\* an overlaps_with call has returned
Overlapped == op = "overlaps_with" /\ pc = "returned"

\* C1: for every trace length n that both assertions pass, overlaps_with
\* returns true iff the registers are equal and the step sets that apply(n, f)
\* enumerates for the two assertions intersect.
C1_OverlapIsSharedCell ==
    Overlapped =>
        \A n \in Usize :
            (ValidFor(self, n) /\ ValidFor(other, n)) =>
                (ret.bool <=>
                    /\ self.register = other.register
                    /\ AppliedSteps(self, n) \cap AppliedSteps(other, n) # {})

\* a periodic and a sequence assertion with different first steps and
\* strides, valid on a common trace length, that overlap
C1_Witness ==
    /\ Overlapped
    /\ ret.bool
    /\ is_periodic(self)
    /\ is_sequence(other)
    /\ self.first_step # other.first_step
    /\ self.stride # other.stride
    /\ \E n \in Usize : ValidFor(self, n) /\ ValidFor(other, n)

\* C2: overlaps_with is reflexive and symmetric; equal register and equal
\* first_step always overlap; two single assertions on one register overlap
\* iff their steps are equal.
C2_OverlapRelation ==
    Overlapped =>
        /\ other = self => ret.bool
        /\ overlaps_with(self, self)
        /\ ret.bool = overlaps_with(other, self)
        /\ (self.register = other.register
                /\ self.first_step = other.first_step) => ret.bool
        /\ (is_single(self) /\ is_single(other)
                /\ self.register = other.register)
            => (ret.bool <=> self.first_step = other.first_step)

\* equal register and first step but different strides and values: overlap
C2_Witness ==
    /\ Overlapped
    /\ ret.bool
    /\ self.register = other.register
    /\ self.first_step = other.first_step
    /\ self.stride # other.stride
    /\ is_sequence(self)
    /\ self.values # other.values

\* an apply call has returned
Applied == op = "apply" /\ pc = "returned"

\* the steps f was invoked with
CalledSteps == {calls[k][1] : k \in 1 .. Len(calls)}

\* C3: on a valid trace length get_num_steps equals the number of distinct
\* steps apply invokes f with, apply repeats no step, every step is below
\* the trace length, and every step is congruent to first_step modulo a
\* non-zero stride.
C3_NumStepsMatchesApply ==
    Applied =>
        /\ get_num_steps(self, arg) =
               [tag |-> "usize", a |-> Cardinality(CalledSteps), b |-> 0]
        /\ Len(calls) = Cardinality(CalledSteps)
        /\ \A s \in CalledSteps : s < arg
        /\ self.stride > 0 =>
               \A s \in CalledSteps :
                   s % self.stride = self.first_step % self.stride

\* a periodic assertion applied to a trace four strides long
C3_Witness ==
    /\ Applied
    /\ is_periodic(self)
    /\ self.first_step > 0
    /\ Len(calls) = 4

\* the invocations the claim lists for apply(n, f), in order
ExpectedCalls(a, n) ==
    IF a.stride = 0
    THEN << <<a.first_step, a.values[1]>> >>
    ELSE IF Len(a.values) = 1
    THEN [k \in 1 .. (n \div a.stride) |->
              <<a.first_step + (k - 1) * a.stride, a.values[1]>>]
    ELSE [k \in 1 .. Len(a.values) |->
              <<a.first_step + (k - 1) * a.stride, a.values[k]>>]

\* C4: apply invokes f exactly with the listed (step, value) pairs, in
\* increasing i: at every point of the run the invocations made so far are
\* the first i of the list, the whole list has been delivered when apply
\* returns, and the steps are strictly increasing.
C4_ApplyOrder ==
    (op = "apply" /\ pc \in {"applying", "returned"}) =>
        /\ i <= Len(ExpectedCalls(self, arg))
        /\ calls = SubSeq(ExpectedCalls(self, arg), 1, i)
        /\ pc = "returned" => calls = ExpectedCalls(self, arg)
        /\ \A k \in 1 .. Len(calls) - 1 : calls[k][1] < calls[k + 1][1]

\* a sequence of four values delivered in list order
C4_Witness ==
    /\ Applied
    /\ is_sequence(self)
    /\ Len(calls) = 4
    /\ calls[1][2] # calls[4][2]

\* n is a power of two (as a number, whether or not it fits a usize)
PowerOfTwo(n) == \E k \in 0 .. WordBits : n = 2 ^ k

\* the result the claim gives validate_trace_length(n) for the assertion a
ClaimedLengthResult(a, n) ==
    IF ~PowerOfTwo(n) THEN Err("TraceLengthNotPowerOfTwo", n, 0)
    ELSE IF a.stride = 0 THEN
        IF a.first_step < n THEN OkResult
        ELSE Err("TraceLengthTooShort", next_power_of_two(a.first_step + 1), n)
    ELSE IF Len(a.values) = 1 THEN
        IF a.stride <= n THEN OkResult
        ELSE Err("TraceLengthTooShort", a.stride, n)
    ELSE
        IF Len(a.values) * a.stride = n THEN OkResult
        ELSE Err("TraceLengthNotExact", Len(a.values) * a.stride, n)

\* a validate_trace_length call has ended
LengthValidated ==
    op = "validate_trace_length" /\ pc \in {"returned", "panicked"}

\* C5: validate_trace_length returns TraceLengthNotPowerOfTwo(n) for every n
\* that is not a power of two, before any other check; otherwise Ok or
\* TraceLengthTooShort(next_power_of_two(first_step + 1), n) for a single
\* assertion, Ok or TraceLengthTooShort(stride, n) for a periodic one, Ok or
\* TraceLengthNotExact(|values| * stride, n) for a sequence.
C5_ValidateTraceLength ==
    LengthValidated => ret = ClaimedLengthResult(self, arg)

\* no usize computation of validate_trace_length(n) overflows for a
OverflowFree(a, n) ==
    /\ (is_single(a) /\ a.first_step >= n /\ is_power_of_two(n))
           => ~Overflows(next_power_of_two(a.first_step + 1))
    /\ is_sequence(a) => ~Overflows(Len(a.values) * a.stride)

\* the statement of C5 wherever first_step + 1, its next power of two and
\* |values| * stride fit a usize
C5_WithoutOverflow ==
    (LengthValidated /\ OverflowFree(self, arg))
        => ret = ClaimedLengthResult(self, arg)

\* the validation's arithmetic overflowed: a panic, or a wrapped length
C5_OverflowReached ==
    /\ LengthValidated
    /\ ~OverflowFree(self, arg)
    /\ ret # ClaimedLengthResult(self, arg)

StrideAccepted(a) ==
    /\ PowerOfTwo(a.stride)
    /\ a.stride >= 2
    /\ a.first_step < a.stride

C8_SequenceOfOne ==
    (ctor = "sequence" /\ pc # "aborted") =>
        /\ Len(args.values) = 1 =>
               /\ self.stride = 0
               /\ is_single(self)
               /\ self = single(args.register, args.first_step,
                                args.values[1]).val
        /\ Len(args.values) > 1 => self.stride = args.stride

\* sequence(register, first_step, 4, [v]) has returned
C8_Witness ==
    /\ ctor = "sequence"
    /\ pc = "ready"
    /\ Len(args.values) = 1
    /\ args.stride = 4
    /\ args.first_step > 0

\* the key the claim orders assertions by
Key(a) == <<a.stride, a.first_step, a.register>>

\* lexicographic comparison of two keys
LexCmp(x, y) ==
    IF x = y THEN "Equal"
    ELSE LET d == CHOOSE k \in 1 .. 3 :
                      x[k] # y[k] /\ \A j \in 1 .. k - 1 : x[j] = y[j]
         IN  IF x[d] < y[d] THEN "Less" ELSE "Greater"

Flip(o) == IF o = "Less" THEN "Greater" ELSE IF o = "Greater" THEN "Less" ELSE o

\* C9: cmp is the lexicographic ascending order on (stride, first_step,
\* register): total, antisymmetric up to the key, transitive, Equal exactly
\* for equal keys whatever the values; partial_cmp returns Some(cmp).
C9_Ordering ==
    /\ (op = "cmp" /\ pc = "returned") =>
           /\ ret.ord = LexCmp(Key(self), Key(other))
           /\ ret.ord \in {"Less", "Equal", "Greater"}
           /\ cmp(other, self) = Flip(ret.ord)
           /\ ret.ord = "Equal" <=> Key(self) = Key(other)
           /\ ret.ord # "Greater" =>
                  \A c \in Others :
                      cmp(other, c) # "Greater" => cmp(self, c) # "Greater"
    /\ (op = "partial_cmp" /\ pc = "returned") =>
           /\ ret.some
           /\ ret.ord = cmp(self, other)
           /\ ret.ord = LexCmp(Key(self), Key(other))

\* two assertions with one key and different values compare Equal
C9_Witness ==
    /\ op = "cmp"
    /\ pc = "returned"
    /\ ret.ord = "Equal"
    /\ self.values # other.values
    /\ self.stride > 0

\* every stored auxiliary segment has poly_size() rows
AuxRowsMatch ==
    \A k \in 1 .. Len(aux_segment_polys) :
        num_rows(aux_segment_polys[k]) = poly_size(main_segment_polys)

\* what one step of the table may do
TableStep ==
    /\ main_segment_polys' = main_segment_polys
    /\ poly_size(main_segment_polys') = poly_size(main_segment_polys)
    /\ top' = "poly_size" =>
           /\ tret' = num_rows(main_segment_polys)
           /\ aux_segment_polys' = aux_segment_polys
    /\ top' = "add_aux_segment" =>
           IF num_rows(targ') # num_rows(main_segment_polys)
           THEN /\ tpc' = "panicked"
                /\ aux_segment_polys' = aux_segment_polys
           ELSE /\ tpc' = "ready"
                /\ aux_segment_polys' = Append(aux_segment_polys, targ')

\* C10: in every state reachable from new(main) every auxiliary segment has
\* poly_size() rows and poly_size() is main.num_rows and never changes; an
\* add_aux_segment call with another number of rows aborts and appends
\* nothing, one with the same number of rows appends that segment at the
\* end and keeps the earlier ones in order.
C10_AuxSegments == [](AuxRowsMatch) /\ [][TableStep]_vars

\* two different segments were appended, in call order
C10_Witness ==
    /\ tpc = "ready"
    /\ top = "add_aux_segment"
    /\ Len(aux_segment_polys) = 2
    /\ aux_segment_polys[1] # aux_segment_polys[2]
    /\ aux_segment_polys[2] = targ
    /\ AuxRowsMatch

\* the k-fold product of x with itself
RECURSIVE QuadPow(_, _)
QuadPow(x, k) == IF k = 0 THEN QUAD_ONE ELSE quad_mul(x, QuadPow(x, k - 1))

\* the sum of p[k] * x^(k - 1) over the first n coefficients of p
RECURSIVE PolySum(_, _, _)
PolySum(p, x, n) ==
    IF n = 0 THEN QUAD_ZERO
    ELSE quad_add(PolySum(p, x, n - 1), quad_mul(p[n], QuadPow(x, n - 1)))

PolyValue(p, x) == PolySum(p, x, Len(p))

\* the number of columns of the first n auxiliary segments
RECURSIVE AuxCols(_)
AuxCols(n) ==
    IF n = 0 THEN 0 ELSE AuxCols(n - 1) + num_cols(aux_segment_polys[n])

\* the number of trace columns
TotalCols == num_cols(main_segment_polys) + AuxCols(Len(aux_segment_polys))

\* v lists the value at x of every main column, then of every column of
\* the auxiliary segments in the order they were added
IsRowAt(v, x) ==
    /\ Len(v) = TotalCols
    /\ \A j \in 1 .. num_cols(main_segment_polys) :
           v[j] = PolyValue([k \in 1 .. num_rows(main_segment_polys) |->
                               <<main_segment_polys[j][k], 0>>], x)
    /\ \A n \in 1 .. Len(aux_segment_polys) :
           \A j \in 1 .. num_cols(aux_segment_polys[n]) :
               v[num_cols(main_segment_polys) + AuxCols(n - 1) + j]
                   = PolyValue(aux_segment_polys[n][j], x)

\* C11: evaluate_at(x) returns one vector of as many entries as the table
\* has columns: the value at x of each main column polynomial, its base
\* field coefficients lifted to E, then the values at x of the columns of
\* each auxiliary segment in the order add_aux_segment added them.
C11_EvaluateAt ==
    (top = "evaluate_at" /\ tpc = "returned") => IsRowAt(tret, targ)

\* evaluate_at returned for two main columns and two auxiliary segments,
\* and the order of the segments shows in the result
C11_Witness ==
    /\ top = "evaluate_at"
    /\ tpc = "returned"
    /\ num_cols(main_segment_polys) = 2
    /\ Len(aux_segment_polys) = 2
    /\ tret[1] # tret[2]
    /\ evaluate_columns_at(aux_segment_polys[1], targ)
           # evaluate_columns_at(aux_segment_polys[2], targ)

\* get_ood_frame has returned a frame
OodReturned == top = "get_ood_frame" /\ tpc = "returned"

\* the generator of the trace domain, as an element of E
DomainGenerator ==
    quad_from(get_root_of_unity(log2(poly_size(main_segment_polys))).val)

\* g has the order n
HasOrder(g, n) ==
    /\ QuadPow(g, n) = QUAD_ONE
    /\ \A k \in 1 .. n - 1 : QuadPow(g, k) # QUAD_ONE

\* C12: get_ood_frame(z, max_pow, ratio) returns exactly two vectors:
\* with g the root of unity of order poly_size() and C the number of trace
\* columns, the first has max_pow * C entries and its k-th block of C
\* entries is evaluate_at(z * g^k), the second is evaluate_at(z * g^ratio)
\* and has C entries.
C12_OodFrame ==
    OodReturned =>
        LET g == DomainGenerator
            C == TotalCols
        IN  /\ HasOrder(g, poly_size(main_segment_polys))
            /\ Len(tret) = 2
            /\ Len(tret[1]) = targ.max_pow * C
            /\ \A k \in 0 .. targ.max_pow - 1 :
                   /\ SubSeq(tret[1], k * C + 1, (k + 1) * C)
                          = evaluate_at(main_segment_polys, aux_segment_polys,
                                        quad_mul(targ.z, QuadPow(g, k)))
                   /\ IsRowAt(SubSeq(tret[1], k * C + 1, (k + 1) * C),
                              quad_mul(targ.z, QuadPow(g, k)))
            /\ Len(tret[2]) = C
            /\ tret[2] = evaluate_at(main_segment_polys, aux_segment_polys,
                                     quad_mul(targ.z, QuadPow(g, targ.ratio)))
            /\ IsRowAt(tret[2], quad_mul(targ.z, QuadPow(g, targ.ratio)))

\* a frame of two current rows over a domain of four points, the next row
\* two steps ahead
C12_Witness ==
    /\ OodReturned
    /\ poly_size(main_segment_polys) = 4
    /\ Len(aux_segment_polys) >= 1
    /\ targ.max_pow = 2
    /\ targ.ratio = 2
    /\ SubSeq(tret[1], 1, TotalCols) # SubSeq(tret[1], TotalCols + 1, 2 * TotalCols)
    /\ tret[2] # SubSeq(tret[1], 1, TotalCols)
    /\ tret[2] # SubSeq(tret[1], TotalCols + 1, 2 * TotalCols)

\* C13 as stated: max_pow = 0 gives a current vector of length zero, and
\* ratio = 0 gives a next vector equal to the first C entries of current.
C13_OodFrameEdges ==
    OodReturned =>
        /\ targ.max_pow = 0 => Len(tret[1]) = 0
        /\ targ.ratio = 0 =>
               /\ Len(tret[1]) >= TotalCols
               /\ tret[2] = SubSeq(tret[1], 1, TotalCols)

\* C13, amended: max_pow = 0 gives a current vector of length zero; ratio = 0
\* gives the next vector evaluate_at(z), which is the first C entries of
\* current whenever max_pow >= 1.
C13_OodFrameEdgesAmended ==
    OodReturned =>
        /\ targ.max_pow = 0 => Len(tret[1]) = 0
        /\ targ.ratio = 0 =>
               /\ tret[2] = evaluate_at(main_segment_polys, aux_segment_polys, targ.z)
               /\ targ.max_pow >= 1 => tret[2] = SubSeq(tret[1], 1, TotalCols)

\* ratio = 0 with a current vector that has a first row, over a domain
\* whose generator is not ONE
C13_Witness ==
    /\ OodReturned
    /\ targ.ratio = 0
    /\ targ.max_pow >= 1
    /\ poly_size(main_segment_polys) > 1
    /\ tret[2] = SubSeq(tret[1], 1, TotalCols)

\* the accessors of the table
Readers ==
    {"poly_size", "evaluate_at", "get_ood_frame", "main_trace_polys",
     "aux_trace_polys"}

\* what the accessor called name returns for the arguments a on the table
\* of main_ and aux_
ReaderResult(name, a, main_, aux_) ==
    CASE name = "poly_size" -> poly_size(main_)
      [] name = "evaluate_at" -> evaluate_at(main_, aux_, a)
      [] name = "get_ood_frame" ->
             get_ood_frame(main_, aux_, a.z, a.max_pow, a.ratio).frame
      [] name = "main_trace_polys" -> main_trace_polys(main_)
      [] name = "aux_trace_polys" -> aux_trace_polys(aux_)

\* a step that calls an accessor leaves the table as it was and returns
\* what the accessor returns on that table; a step that changes the table
\* is an add_aux_segment call and appends to the auxiliary list only
FrameStep ==
    /\ (tpc = "ready" /\ top' \in Readers) =>
           /\ main_segment_polys' = main_segment_polys
           /\ aux_segment_polys' = aux_segment_polys
           /\ tret' = ReaderResult(top', targ', main_segment_polys', aux_segment_polys')
    /\ <<main_segment_polys, aux_segment_polys>>'
           # <<main_segment_polys, aux_segment_polys>> =>
           /\ top' = "add_aux_segment"
           /\ main_segment_polys' = main_segment_polys
           /\ aux_segment_polys' = Append(aux_segment_polys, targ')

Quotient(n, d) == CHOOSE q \in BaseElements : (q * d) % M = n % M

\* C15: in the quadratic extension F[x]/(x^2 - x - 1), inv(ZERO) = ZERO,
\* and for x = (a, b) other than ZERO, with denom = a^2 + ab - b^2, denom is
\* not zero, inv(x) = ((a + b) / denom, -b / denom) and x * inv(x) = ONE.
C15_QuadInv ==
    fop = "quad_inv" =>
        LET a == fin.x[1]
            b == fin.x[2]
            denom == (a * a + a * b + M * M - b * b) % M
        IN  IF fin.x = <<0, 0>> THEN fout = <<0, 0>>
            ELSE /\ denom # 0
                 /\ fout = <<Quotient(a + b, denom), Quotient(M - b, denom)>>
                 /\ quad_mul(fin.x, fout) = <<1, 0>>

\* the inverse of an element with two nonzero coefficients
C15_Witness ==
    /\ fop = "quad_inv"
    /\ fin.x[1] # 0
    /\ fin.x[2] # 0
    /\ fout # fin.x
    /\ quad_mul(fin.x, fout) = <<1, 0>>

\* the k-fold products of base field and cubic extension elements
RECURSIVE BasePow(_, _)
BasePow(x, k) == IF k = 0 THEN 1 ELSE base_mul(x, BasePow(x, k - 1))

RECURSIVE CubePow(_, _)
CubePow(x, k) == IF k = 0 THEN CUBE_ONE ELSE cube_mul(x, CubePow(x, k - 1))

\* C16: for a base field or extension field element x and an exponent
\* k >= 0, exp(x, k) is the k-fold product of x with itself; exp(x, 0) is
\* ONE also for x = ZERO, and exp(ZERO, k) is ZERO for k > 0.
C16_Exp ==
    /\ fop = "base_exp" =>
           /\ fout = BasePow(fin.x, fin.power)
           /\ fin.power = 0 => fout = 1
           /\ (fin.x = 0 /\ fin.power > 0) => fout = 0
    /\ fop = "quad_exp" =>
           /\ fout = QuadPow(fin.x, fin.power)
           /\ fin.power = 0 => fout = <<1, 0>>
           /\ (fin.x = <<0, 0>> /\ fin.power > 0) => fout = <<0, 0>>
    /\ fop = "cube_exp" =>
           /\ fout = CubePow(fin.x, fin.power)
           /\ fin.power = 0 => fout = <<1, 0, 0>>
           /\ (fin.x = <<0, 0, 0>> /\ fin.power > 0) => fout = <<0, 0, 0>>

\* exp(ZERO, 0) = ONE in the quadratic extension
C16_Witness ==
    /\ fop = "quad_exp"
    /\ fin.x = <<0, 0>>
    /\ fin.power = 0
    /\ fout = <<1, 0>>

\* the product of a[1] + a[2] * phi and b[1] + b[2] * phi with phi^2
\* replaced by phi + 1
ReducedProduct(a, b) ==
    LET c0 == a[1] * b[1]
        c1 == a[1] * b[2] + a[2] * b[1]
        c2 == a[2] * b[2]
    IN  <<(c0 + c2) % M, (c1 + c2) % M>>

\* third factors for associativity
QuadSample == {<<0, 0>>, <<1, 0>>, <<0, 1>>, <<3, 0>>, <<5, 7>>, <<12, 12>>}

\* C17: (a0, a1) * (b0, b1) = (a0*b0 + a1*b1, (a0+a1)*(b0+b1) - a0*b0) is
\* the product of a0 + a1*phi and b0 + b1*phi reduced modulo
\* phi^2 - phi - 1; the multiplication is commutative and associative,
\* ONE = (1, 0) is its identity and ZERO = (0, 0) is absorbing.
C17_QuadMul ==
    fop = "quad_mul" =>
        LET a == fin.x
            b == fin.rhs
        IN  /\ fout = <<(a[1] * b[1] + a[2] * b[2]) % M,
                        ((a[1] + a[2]) * (b[1] + b[2]) + M * M - a[1] * b[1]) % M>>
            /\ fout = ReducedProduct(a, b)
            /\ fout = quad_mul(b, a)
            /\ \A c \in QuadSample : quad_mul(fout, c) = quad_mul(a, quad_mul(b, c))
            /\ b = <<1, 0>> => fout = a
            /\ a = <<1, 0>> => fout = b
            /\ (a = <<0, 0>> \/ b = <<0, 0>>) => fout = <<0, 0>>

\* a product whose second coefficient needs the subtraction
C17_Witness ==
    /\ fop = "quad_mul"
    /\ fin.x = <<2, 3>>
    /\ fin.rhs = <<4, 5>>
    /\ fout = <<10, 11>>

\* C18: for the cubic extension and every n, zeroed_vector(n) returns
\* exactly n elements, each ZERO, built from 3 * n zeroed base field
\* elements, as the quadratic extension's returns n ZERO elements built
\* from 2 * n.
C18_ZeroedVector ==
    fop = "zeroed_vector" =>
        /\ ~fout.panic
        /\ Len(fout.elements) = fin.n
        /\ \A k \in 1 .. Len(fout.elements) :
               fout.elements[k] = [c \in 1 .. fin.d |-> 0]

\* the quadratic extension's zeroed_vector(n) returns n ZERO elements
\* wherever n * 2 fits a usize
C18_QuadWithoutOverflow ==
    (fop = "zeroed_vector" /\ fin.d = 2 /\ ~Overflows(fin.n * 2)) =>
        /\ ~fout.panic
        /\ fout.elements = [k \in 1 .. fin.n |-> <<0, 0>>]

\* the cubic extension's zeroed_vector(n) returns (2 * n) / 3 elements, or
\* fails the debug_assert! of base_to_quad_vector
C18_CubicShort ==
    (fop = "zeroed_vector" /\ fin.d = 3 /\ ~Overflows(fin.n * 2)) =>
        IF build = "debug" /\ (fin.n * 2) % 3 # 0 THEN fout.panic
        ELSE /\ ~fout.panic
             /\ fout.elements = [k \in 1 .. (fin.n * 2) \div 3 |-> <<0, 0, 0>>]

\* the length and the alignment of the bytes handed to bytes_as_elements
BadLength == Len(fin.bytes) % (fin.d * BASE_ELEMENT_BYTES) # 0
BadAlignment == fin.p % BASE_ELEMENT_BYTES # 0

LeByte(w, k) == (w \div (ByteBase ^ (k - 1))) % ByteBase

\* C20: for a slice s of N elements of the extension of degree d,
\* as_base_elements(s) has d * N entries, the components of the elements in
\* element order; elements_as_bytes(s) has N * ELEMENT_BYTES bytes, the
\* little-endian bytes of those components in the same order; and
\* bytes_as_elements(elements_as_bytes(s)) returns a slice equal to s.
C20_Layout ==
    /\ fop = "as_base_elements" =>
           /\ Len(fout) = fin.d * Len(fin.elements)
           /\ \A n \in 1 .. Len(fin.elements) : \A c \in 1 .. fin.d :
                  fout[(n - 1) * fin.d + c] = fin.elements[n][c]
    /\ fop = "elements_as_bytes" =>
           /\ Len(fout.bytes) = Len(fin.elements) * fin.d * BASE_ELEMENT_BYTES
           /\ \A n \in 1 .. Len(fin.elements) : \A c \in 1 .. fin.d :
                  \A k \in 1 .. BASE_ELEMENT_BYTES :
                      fout.bytes[((n - 1) * fin.d + (c - 1)) * BASE_ELEMENT_BYTES + k]
                          = LeByte(fin.elements[n][c], k)
           /\ bytes_as_elements(fin.d, fout.p, fout.bytes).tag = "Ok"
           /\ bytes_as_elements(fin.d, fout.p, fout.bytes).elements = fin.elements

\* the bytes of two cubic elements whose first component fills two bytes
C20_Witness ==
    /\ fop = "elements_as_bytes"
    /\ fin.d = 3
    /\ Len(fin.elements) = 2
    /\ fin.elements[1][1] >= ByteBase
    /\ fin.elements[1][2] < ByteBase
    /\ fout.bytes[2] # 0
    /\ fout.bytes[4] = 0
    /\ Len(fout.bytes) = 2 * ELEMENT_BYTES(3)


(***************************************************************************)
(* Field elements and their bytes.  A base field element is stored as one  *)
(* integer of BASE_ELEMENT_BYTES bytes, which the arithmetic may leave     *)
(* unreduced: the element it denotes is its residue modulo M.              *)
(***************************************************************************)

\* the integers that fit the memory of a base field element
WordCount == ByteBase ^ BASE_ELEMENT_BYTES

\* BaseElement::new: the value is reduced silently
base_new(value) == value % M

\* to_repr: the canonical integer of the element stored as w
to_repr(w) == w % M

\* PartialEq of base field elements: the canonical integers are compared
base_eq(a, b) == to_repr(a) = to_repr(b)

\* variant: the bytes of the stored integer
to_bytes_of_memory(w) == to_le_bytes(w)

\* to_bytes of a base field element: the bytes of its canonical integer
to_bytes(w) == to_le_bytes(to_repr(w))

\* the integers a reduced product may be stored as: its residue, or the
\* residue plus the modulus where that fits the memory of an element
mul_words(a, b) ==
    {w \in {(a * b) % M, ((a * b) % M) + M} : w < WordCount}

\* stored integers of base field elements: reduced ones, and the
\* unreduced one of (M - 1) * (M - 1)
InternalWords == {0, 1, M - 1, M + 1}

\* integers encoded in the bytes handed to try_from
EncodedWords == {1, M - 1, M, WordCount - 1}

\* the elements of the extension of degree d (degree 1: the base field)
\* over the stored integers in `words`
ElementsOver(d, words) == [1 .. d -> words]

\* as_bytes of an element of degree d: the bytes of its memory
as_bytes(d, x) == bytes_from_raw_parts(memory_bytes(<<x>>), ELEMENT_BYTES(d))

\* results of try_from and read_from
OkElement(x) == [tag |-> "Ok", msg |-> "", element |-> x]
ErrElement(msg) == [tag |-> "Err", msg |-> msg, element |-> <<>>]

\* BaseElement::read_from on the bytes from position pos (counted from 0)
base_read_from(bytes, pos) ==
    IF from_le_bytes(SubSeq(bytes, pos + 1, pos + BASE_ELEMENT_BYTES)) >= M
    THEN ErrElement("invalid field element: value is greater than or equal to the field modulus")
    ELSE OkElement(<<base_new(from_le_bytes(SubSeq(bytes, pos + 1, pos + BASE_ELEMENT_BYTES)))>>)

\* BaseElement::try_from(bytes)
base_try_from(bytes) ==
    IF Len(bytes) < BASE_ELEMENT_BYTES
    THEN ErrElement("not enough bytes for a full field element")
    ELSE IF Len(bytes) > BASE_ELEMENT_BYTES
    THEN ErrElement("too many bytes for a field element")
    ELSE base_read_from(bytes, 0)

\* QuadExtensionA::try_from(bytes)
quad_try_from(bytes) ==
    IF Len(bytes) < BASE_ELEMENT_BYTES * 2
    THEN ErrElement("need more bytes in order to convert into extension field element")
    ELSE LET value0 == base_try_from(SubSeq(bytes, 1, BASE_ELEMENT_BYTES))
             value1 == base_try_from(SubSeq(bytes, BASE_ELEMENT_BYTES + 1, Len(bytes)))
         IN  IF value0.tag = "Err"
             THEN ErrElement("could not convert into field element")
             ELSE IF value1.tag = "Err"
             THEN ErrElement("could not convert into field element")
             ELSE OkElement(<<value0.element[1], value1.element[1]>>)

\* CubeExtension::read_from(source): three base field elements in turn
cube_read_from(bytes) ==
    LET value0 == base_read_from(bytes, 0)
        value1 == base_read_from(bytes, BASE_ELEMENT_BYTES)
        value2 == base_read_from(bytes, 2 * BASE_ELEMENT_BYTES)
    IN  IF value0.tag = "Err" THEN value0
        ELSE IF value1.tag = "Err" THEN value1
        ELSE IF value2.tag = "Err" THEN value2
        ELSE OkElement(<<value0.element[1], value1.element[1], value2.element[1]>>)

\* variant: no test for too many bytes
cube_try_from_no_upper(bytes) ==
    IF Len(bytes) < BASE_ELEMENT_BYTES * 3
    THEN ErrElement("not enough bytes for a full field element")
    ELSE cube_read_from(bytes)

\* CubeExtension::try_from(bytes)
cube_try_from(bytes) ==
    IF Len(bytes) < BASE_ELEMENT_BYTES * 3
    THEN ErrElement("not enough bytes for a full field element")
    ELSE IF Len(bytes) > BASE_ELEMENT_BYTES * 3
    THEN ErrElement("too many bytes for a field element")
    ELSE cube_read_from(bytes)

\* try_from of the element type of degree d
try_from(d, bytes) ==
    CASE d = 1 -> base_try_from(bytes)
      [] d = 2 -> quad_try_from(bytes)
      [] d = 3 -> cube_try_from(bytes)

\* the degrees of the element types, the base field included
ElementDegrees == {1} \union Degrees

\* the lengths of the byte slices handed to try_from
Lengths(d) ==
    {0, ELEMENT_BYTES(d) - 1, ELEMENT_BYTES(d), ELEMENT_BYTES(d) + 1}

ElementInit == AIdle /\ TIdle /\ FIdle

\* try_from on the bytes of encoded integers, cut short or followed by a
\* zero byte
TryFrom ==
    /\ fop = "none"
    /\ \E d \in ElementDegrees :
        \E t \in ElementsOver(d, EncodedWords), len \in Lengths(d) :
            /\ fin' = [d |-> d,
                       bytes |-> SubSeq(memory_bytes(<<t>>) \o <<0>>, 1, len)]
            /\ fout' = try_from(d, SubSeq(memory_bytes(<<t>>) \o <<0>>, 1, len))
    /\ fop' = "try_from"
    /\ UNCHANGED <<avars, tvars>>

\* try_from(x.as_bytes()) for an element x
AsBytesTryFrom ==
    /\ fop = "none"
    /\ \E d \in ElementDegrees :
        \E x \in ElementsOver(d, InternalWords) :
            /\ fin' = [d |-> d, x |-> x]
            /\ fout' = try_from(d, as_bytes(d, x))
    /\ fop' = "as_bytes_try_from"
    /\ UNCHANGED <<avars, tvars>>

\* (-BaseElement::from(a)).to_repr() for an unsigned integer a
Neg ==
    /\ fop = "none"
    /\ \E a \in 0 .. WordCount - 1 :
        /\ fin' = [a |-> a]
        /\ fout' = to_repr(base_neg(base_new(a)))
    /\ fop' = "neg"
    /\ UNCHANGED <<avars, tvars>>

\* BaseElement::new(v).to_repr() for an unsigned integer v
New ==
    /\ fop = "none"
    /\ \E v \in 0 .. WordCount - 1 :
        /\ fin' = [v |-> v]
        /\ fout' = to_repr(base_new(v))
    /\ fop' = "new"
    /\ UNCHANGED <<avars, tvars>>

\* tests::equals: an element a and the product b of new(v1) and new(v2),
\* stored as any of the integers the reduction may leave
Equals ==
    /\ fop = "none"
    /\ \E a \in InternalWords, v1 \in EncodedWords, v2 \in EncodedWords :
        \E b \in mul_words(base_new(v1), base_new(v2)) :
            /\ fin' = [a |-> a, v1 |-> v1, v2 |-> v2, b |-> b]
            /\ fout' = [eq |-> base_eq(a, b),
                        repr |-> <<to_repr(a), to_repr(b)>>,
                        bytes |-> <<to_bytes(a), to_bytes(b)>>,
                        memory |-> <<as_bytes(1, <<a>>), as_bytes(1, <<b>>)>>]
    /\ fop' = "equals"
    /\ UNCHANGED <<avars, tvars>>

ElementNext ==
    \/ TryFrom
    \/ AsBytesTryFrom
    \/ Neg
    \/ New
    \/ Equals

SpecElement == ElementInit /\ [][ElementNext]_vars

\* the elements denoted by the stored integers of x and of y are the same
SameElement(x, y) ==
    /\ Len(x) = Len(y)
    /\ \A c \in 1 .. Len(x) : x[c] % M = y[c] % M

\* C21: try_from(as_bytes(x)) succeeds and returns x for every base or
\* extension field element x, whatever integers its components are stored
\* as.
C21_RoundTrip ==
    fop = "as_bytes_try_from" =>
        /\ fout.tag = "Ok"
        /\ SameElement(fout.element, fin.x)

\* every component of x is stored as its canonical integer
Canonical(x) == \A c \in 1 .. Len(x) : x[c] < M

\* C21, where it holds: the round trip succeeds and returns x exactly for
\* the elements whose components are all stored reduced.
C21_CanonicalRoundTrip ==
    fop = "as_bytes_try_from" =>
        /\ fout.tag = "Ok" <=> Canonical(fin.x)
        /\ fout.tag = "Ok" => fout.element = fin.x

\* an element with an unreduced component has been through the round trip
C21_UnreducedReached ==
    /\ fop = "as_bytes_try_from"
    /\ fin.d = 3
    /\ fin.x = <<1, M + 1, 0>>
    /\ fout.tag = "Err"

\* the integer encoded little-endian in component c (from 1) of the bytes
LeValue(bytes, c) ==
    LET digit(k) == bytes[(c - 1) * BASE_ELEMENT_BYTES + k] * ByteBase ^ (k - 1)
        sum[k \in 0 .. BASE_ELEMENT_BYTES] ==
            IF k = 0 THEN 0 ELSE sum[k - 1] + digit(k)
    IN  sum[BASE_ELEMENT_BYTES]

\* C22: try_from(bytes) of the element type of degree d succeeds if and
\* only if there are exactly ELEMENT_BYTES bytes and every component's
\* little-endian value is below the modulus; then component c is the value
\* of its BASE_ELEMENT_BYTES bytes, and otherwise (too short, too long, a
\* value not below the modulus) an error and no element is returned.
C22_TryFrom ==
    fop = "try_from" =>
        LET d == fin.d
            bytes == fin.bytes
            valid ==
                /\ Len(bytes) = ELEMENT_BYTES(d)
                /\ \A c \in 1 .. d : LeValue(bytes, c) < M
        IN  /\ fout.tag = "Ok" <=> valid
            /\ valid => fout.element = [c \in 1 .. d |-> LeValue(bytes, c)]
            /\ ~valid => fout.tag = "Err" /\ fout.element = <<>>

\* try_from has accepted a cubic element, and has rejected too many bytes
\* for a quadratic one
C22_Witness ==
    /\ fop = "try_from"
    /\ \/ /\ fin.d = 3
          /\ fout = OkElement(<<1, M - 1, 1>>)
       \/ /\ fin.d = 2
          /\ Len(fin.bytes) = ELEMENT_BYTES(2) + 1
          /\ LeValue(fin.bytes, 1) < M
          /\ fout.tag = "Err"

C25_Canonical ==
    /\ fop = "equals" =>
        /\ fout.repr[1] \in 0 .. M - 1 /\ fout.repr[1] = fin.a % M
        /\ fout.repr[2] \in 0 .. M - 1 /\ fout.repr[2] = (fin.v1 * fin.v2) % M
        /\ fout.eq <=> fin.a % M = fin.b % M
        /\ fout.eq => fout.repr[1] = fout.repr[2] /\ fout.bytes[1] = fout.bytes[2]
        /\ fin.a # fin.b => fout.memory[1] # fout.memory[2]
    /\ fop = "new" => fout \in 0 .. M - 1 /\ fout = fin.v % M

\* ONE and (M - 1) * (M - 1) stored unreduced are equal, with different
\* stored integers
C25_Witness ==
    /\ fop = "equals"
    /\ fin.a = 1
    /\ fin.v1 = M - 1
    /\ fin.v2 = M - 1
    /\ fin.b = M + 1
    /\ fout.eq
    /\ fout.memory[1] # fout.memory[2]

\* C24: batch_inversion(V) returns a vector Y of the length of V with
\* Y[i] * V[i] = ONE where V[i] is not zero and Y[i] = ZERO where V[i] is
\* zero; the empty vector, vectors with zeros and the all-zero vector are
\* included.
C24_BatchInversion ==
    fop = "batch_inversion" =>
        /\ Len(fout) = Len(fin.values)
        /\ \A k \in 1 .. Len(fin.values) :
            IF fin.values[k] = 0 THEN fout[k] = 0
            ELSE (fout[k] * fin.values[k]) % M = 1

\* the vector [1, 2, 0, 3] has been inverted
C24_Witness ==
    /\ fop = "batch_inversion"
    /\ fin.values = <<1, 2, 0, 3>>
    /\ fout = <<1, (M + 1) \div 2, 0, (2 * M + 1) \div 3>>

\* C26: for 1 <= n <= TWO_ADICITY, w = get_root_of_unity(n) is a primitive
\* 2^n-th root of unity (w^(2^n) = ONE, w^(2^(n-1)) # ONE);
\* get_root_of_unity(TWO_ADICITY) is TWO_ADIC_ROOT_OF_UNITY;
\* get_root_of_unity(n - 1) = get_root_of_unity(n)^2; so the generator of
\* a domain of L = 2^n >= 2 points, get_root_of_unity(log2(L)), has
\* g^L = ONE.
C26_RootOfUnity ==
    (fop = "get_root_of_unity" /\ fin.n \in 1 .. TWO_ADICITY) =>
        LET w == fout.val
            L == 2 ^ fin.n
        IN  /\ ~fout.panic
            /\ BasePow(w, 2 ^ fin.n) = 1
            /\ BasePow(w, 2 ^ (fin.n - 1)) # 1
            /\ fin.n = TWO_ADICITY => w = TWO_ADIC_ROOT_OF_UNITY
            /\ get_root_of_unity(fin.n - 1) = [panic |-> FALSE, val |-> (w * w) % M]
            /\ BasePow(get_root_of_unity(log2(L)).val, L) = 1

\* the root of unity of the order 2 has been returned: it is -ONE
C26_Witness ==
    /\ fop = "get_root_of_unity"
    /\ fin.n = 1
    /\ fout = [panic |-> FALSE, val |-> M - 1]

\* C28: inv of the cubic extension returns ZERO for ZERO; for x # ZERO,
\* with c1 = frobenius(x), c2 = frobenius(c1), numerator = c1 * c2 and
\* norm = x * numerator, the norm lies in the base field (norm[1] and
\* norm[2] are zero, so the debug assertions never fire) and is not zero,
\* inv(x) is the numerator times the inverse of norm[0], and
\* x * inv(x) = ONE.
C28_CubeInv ==
    fop = "cube_inv" =>
        /\ ~fout.panic
        /\ fin.x = CUBE_ZERO => fout.val = CUBE_ZERO
        /\ fin.x # CUBE_ZERO =>
            /\ fout.norm[2] = 0
            /\ fout.norm[3] = 0
            /\ fout.norm[1] # 0
            /\ fout.norm = cube_mul(fin.x, fout.numerator)
            /\ fout.numerator =
                cube_mul(CubePow(fin.x, M), CubePow(CubePow(fin.x, M), M))
            /\ \A c \in 1 .. 3 :
                (fout.val[c] * fout.norm[1]) % M = fout.numerator[c]
            /\ cube_mul(fin.x, fout.val) = CUBE_ONE

\* a cubic element outside the base field has been inverted with debug
\* assertions
C28_Witness ==
    /\ fop = "cube_inv"
    /\ fin.build = "debug"
    /\ fin.x = <<0, 1, 0>>
    /\ ~fout.panic
    /\ cube_mul(fin.x, fout.val) = CUBE_ONE

\* C27: apply(L, f) and get_num_steps(L) abort whenever
\* validate_trace_length(L) does not return Ok; apply validates before the
\* first callback, so f is never invoked for an invalid length.
C27_InvalidLengthAborts ==
    (op \in {"apply", "get_num_steps"}
        /\ validate_trace_length(self, arg) # OkResult) =>
        /\ pc = "panicked"
        /\ ret = Panicked
        /\ calls = <<>>

\* apply of a sequence assertion has aborted on a length that is a power
\* of two but not |values| * stride
C27_Witness ==
    /\ op = "apply"
    /\ pc = "panicked"
    /\ is_sequence(self)
    /\ PowerOfTwo(arg)
    /\ arg # Len(self.values) * self.stride
    /\ calls = <<>>

\* C30: every assertion built by single, periodic or sequence has a
\* non-empty value list whose length is 1 or a power of two; its stride is
\* 0 or a power of two >= 2; stride > 0 implies first_step < stride and
\* stride = 0 implies one value; exactly one of is_single, is_periodic and
\* is_sequence holds, with is_single iff stride = 0, is_periodic iff
\* stride > 0 and one value, is_sequence iff more than one value.
C30_WellFormed ==
    (ctor # "none" /\ pc # "aborted") =>
        LET n == Len(self.values)
            kinds == <<is_single(self), is_periodic(self), is_sequence(self)>>
        IN  /\ n >= 1
            /\ n = 1 \/ PowerOfTwo(n)
            /\ self.stride = 0 \/ (PowerOfTwo(self.stride) /\ self.stride >= 2)
            /\ self.stride > 0 => self.first_step < self.stride
            /\ self.stride = 0 => n = 1
            /\ Cardinality({k \in 1 .. 3 : kinds[k]}) = 1
            /\ is_single(self) <=> self.stride = 0
            /\ is_periodic(self) <=> (self.stride > 0 /\ n = 1)
            /\ is_sequence(self) <=> n > 1

\* a sequence assertion of four values has been built
C30_Witness ==
    /\ ctor = "sequence"
    /\ pc = "ready"
    /\ Len(self.values) = 4
    /\ self.stride = 2
    /\ self.first_step = 1
    /\ is_sequence(self)
    /\ ~is_periodic(self)

\* the base field vector that zeroed_vector(n) hands to
\* base_to_quad_vector
SourceVector(n) == base_zeroed_vector(Wrapped(n * 2))

\* C29: base_to_quad_vector, as zeroed_vector of the extensions of degree
\* d = 2 and d = 3 uses it, scales the length and the capacity so that
\* d * new_len = old_len and d * new_capacity = old_capacity: the vector of
\* extension elements owns exactly the allocated memory.
C29_Capacity ==
    (fop = "zeroed_vector" /\ ~fout.panic) =>
        /\ fin.d * Len(fout.elements) = Len(SourceVector(fin.n).words)
        /\ fin.d * fout.cap = SourceVector(fin.n).cap

\* C29 for the quadratic extension, where it holds
C29_QuadCapacity ==
    (fop = "zeroed_vector" /\ fin.d = 2) =>
        \/ fout.panic /\ build = "debug" /\ Overflows(fin.n * 2)
        \/ /\ ~fout.panic
           /\ 2 * Len(fout.elements) = Len(SourceVector(fin.n).words)
           /\ 2 * fout.cap = SourceVector(fin.n).cap

\* without debug assertions the cubic zeroed_vector(2) has returned one
\* element with the capacity 1 over an allocation of four base elements
C29_CubicReached ==
    /\ fop = "zeroed_vector"
    /\ build = "release"
    /\ fin = [d |-> 3, n |-> 2]
    /\ ~fout.panic
    /\ Len(fout.elements) = 1
    /\ fout.cap = 1
    /\ SourceVector(2).cap = 4
=============================================================================
